---- MODULE Spec2Model ----
(***************************************************************************)
(* A model of fetch_market_prices.py: the paginated, semaphore-bounded     *)
(* fetch of market orders (get_total_pages, fetch_page, fetch_all_pages),  *)
(* the aggregation (process_orders), the writer (save_data) and main with  *)
(* its failure classification (check_esi_status).                          *)
(*                                                                         *)
(* A Python value that may be missing (a dict key that is absent, a None)  *)
(* is a sequence of length 0 or 1: << >> is "absent / None", <<v>> is v.   *)
(***************************************************************************)
EXTENDS Integers, Sequences, FiniteSets, TLC

\* ------------------------------------------------------------------ bounds
\* the largest x-pages value the upstream announces
MaxPages == 4
\* the size of the semaphore main passes to fetch_all_pages (50 in the
\* source, line 225), scaled down so that MaxPages exceeds it
concurrent == 2
\* the longest record list process_orders is applied to in SpecOrders
MaxOrders == 3
\* the most calls of save_data with one aggregate
MaxSaves == 3

\* --------------------------------------------------------------- constants
TARGET_SYSTEM_ID == 30000142
EXIT_SUCCESS == 0
EXIT_REAL_FAILURE == 1
EXIT_MAINTENANCE == 2

None == << >>
Some(v) == <<v>>

\* ------------------------------------------------------------ order records
\* One upstream order record (a JSON object): every field may be absent.
Order(sys, typ, side, price) ==
    [system_id |-> sys, type_id |-> typ, is_buy_order |-> side, price |-> price]

\* a system other than the target
OTHER_SYSTEM_ID == TARGET_SYSTEM_ID + 2

\* The records process_orders is exercised on: target-system buys and sells
\* of two items at negative, zero and positive prices, records of another
\* system, and records lacking the item, the side or the price.
OrderRecords ==
    { Order(Some(TARGET_SYSTEM_ID), Some(1), Some(TRUE), Some(p)) : p \in {-1, 0, 1, 2} }
    \cup { Order(Some(TARGET_SYSTEM_ID), Some(1), Some(FALSE), Some(p)) : p \in {0, 1, 2} }
    \cup { Order(Some(TARGET_SYSTEM_ID), Some(2), Some(TRUE), Some(1)),
           Order(Some(TARGET_SYSTEM_ID), Some(2), Some(FALSE), Some(3)),
           Order(Some(OTHER_SYSTEM_ID), Some(1), Some(TRUE), Some(3)),
           Order(Some(OTHER_SYSTEM_ID), Some(2), Some(FALSE), None),
           Order(None, Some(1), Some(FALSE), Some(-1)),
           Order(Some(TARGET_SYSTEM_ID), Some(0), Some(TRUE), Some(3)),
           Order(Some(TARGET_SYSTEM_ID), None, Some(FALSE), Some(1)),
           Order(Some(TARGET_SYSTEM_ID), Some(1), None, Some(3)),
           Order(Some(TARGET_SYSTEM_ID), Some(1), Some(TRUE), None) }

BoundedSeq(S, n) == UNION { [1..m -> S] : m \in 0..n }

\* ------------------------------------------------------------- conversions
\* str(n) for the one-digit integers the model uses
DigitStr == <<"0", "1", "2", "3", "4", "5", "6", "7", "8", "9">>
str(n) == DigitStr[n + 1]

\* int(s) of a header string: << >> when int() raises ValueError
int(s) ==
    IF \E n \in 0..9 : str(n) = s
        THEN Some(CHOOSE n \in 0..9 : str(n) = s)
        ELSE None

\* -------------------------------------------------------- process_orders
\* line 155: order.get('system_id') == TARGET_SYSTEM_ID
InTargetSystem_all(o) == TRUE
InTargetSystem(o) == o.system_id = Some(TARGET_SYSTEM_ID)

filtered_orders(orders) == SelectSeq(orders, InTargetSystem)

InSeq(x, s) == \E i \in 1..Len(s) : s[i] = x

\* lines 159-163: the keys of orders_by_type, in insertion order; a record
\* whose type_id is absent or falsy (0) joins no group
RECURSIVE GroupKeys(_, _)
GroupKeys(fo, acc) ==
    IF fo = << >> THEN acc
    ELSE LET t == Head(fo).type_id
         IN  IF t # None /\ t[1] # 0 /\ ~InSeq(t[1], acc)
                 THEN GroupKeys(Tail(fo), Append(acc, t[1]))
                 ELSE GroupKeys(Tail(fo), acc)

orders_by_type(fo, t) == SelectSeq(fo, LAMBDA o : o.type_id = Some(t))

\* lines 170-171: "is True" / "is False"; an absent side is in neither
buy_orders(type_orders) == SelectSeq(type_orders, LAMBDA o : o.is_buy_order = Some(TRUE))
sell_orders(type_orders) == SelectSeq(type_orders, LAMBDA o : o.is_buy_order = Some(FALSE))

\* o['price'] raises KeyError on a record without a price
MissingPrice(os) == \E i \in 1..Len(os) : os[i].price = None
Prices(os) == [i \in 1..Len(os) |-> os[i].price[1]]

\* Python's max and min of a non-empty list: a left-to-right scan
RECURSIVE PyMax(_, _)
PyMax(xs, best) ==
    IF xs = << >> THEN best
    ELSE PyMax(Tail(xs), IF Head(xs) > best THEN Head(xs) ELSE best)

RECURSIVE PyMin(_, _)
PyMin(xs, best) ==
    IF xs = << >> THEN best
    ELSE PyMin(Tail(xs), IF Head(xs) < best THEN Head(xs) ELSE best)

\* line 174
max_buy_price_first(buys) == IF buys = << >> THEN 0 ELSE Head(Prices(buys))
max_buy_price(buys) ==
    IF buys = << >> THEN 0 ELSE PyMax(Tail(Prices(buys)), Head(Prices(buys)))

\* line 177
min_sell_price(sells) ==
    IF sells = << >> THEN 0 ELSE PyMin(Tail(Prices(sells)), Head(Prices(sells)))

\* lines 184-188: the item dict, a side being a key only when it is > 0
item_always(mb, ms) == [b |-> Some(mb), s |-> Some(ms)]
item(mb, ms) ==
    [b |-> IF mb > 0 THEN Some(mb) ELSE None,
     s |-> IF ms > 0 THEN Some(ms) ELSE None]

\* lines 168-191: the loop over orders_by_type.items(); the result dict is
\* the sequence of its (key, item) pairs in insertion order.  raised = TRUE
\* is the KeyError of line 174 or 177 leaving process_orders.
RECURSIVE ResultLoop(_, _, _)
ResultLoop(keys, fo, result) ==
    IF keys = << >> THEN [raised |-> FALSE, value |-> result]
    ELSE LET type_id == Head(keys)
             type_orders == orders_by_type(fo, type_id)
             buys == buy_orders(type_orders)
             sells == sell_orders(type_orders)
         IN  IF MissingPrice(buys) \/ MissingPrice(sells)
                 THEN [raised |-> TRUE, value |-> << >>]
             ELSE LET mb == max_buy_price(buys)
                      ms == min_sell_price(sells)
                  IN  IF mb = 0 /\ ms = 0
                          THEN ResultLoop(Tail(keys), fo, result)
                          ELSE ResultLoop(Tail(keys), fo,
                                   Append(result, [key |-> str(type_id), item |-> item(mb, ms)]))

process_orders(orders) ==
    LET fo == filtered_orders(orders)
    IN  ResultLoop(GroupKeys(fo, << >>), fo, << >>)

\* a result dict as a mapping: its keys, and the item stored under a key
Keys(d) == { d[i].key : i \in 1..Len(d) }
Lookup(d, k) == d[CHOOSE i \in 1..Len(d) : d[i].key = k].item
SameDict(d, e) ==
    /\ Keys(d) = Keys(e)
    /\ \A k \in Keys(d) : Lookup(d, k) = Lookup(e, k)

\* ---------------------------------------------------------- save_data
\* The output file: absent, or holding what json.dump wrote.  The text of a
\* dumped dict is the sequence of its (key, item) pairs in insertion order;
\* complete = FALSE is a file that open(..., 'w') truncated and whose write
\* then failed.
NoFile == [exists |-> FALSE, complete |-> FALSE, text |-> << >>]
DumpedFile(data) == [exists |-> TRUE, complete |-> TRUE, text |-> data]
TruncatedFile == [exists |-> TRUE, complete |-> FALSE, text |-> << >>]
\* what an earlier run left behind
OldFile == DumpedFile(<<[key |-> "9", item |-> item(7, 8)]>>)

\* ---------------------------------------------------- check_esi_status
\* What the status endpoint can answer.  A JSON number is kept as a count
\* of halves (halves = 3 is 1.5), so that int() has something to truncate.
StatusResponse(status, ptype, halves, flag) ==
    [status |-> status, ptype |-> ptype, halves |-> halves, flag |-> flag]

StatusResponses ==
    { StatusResponse(st, "absent", 0, FALSE) :
          st \in {"timeout", "http_error", "bad_json", "not_object"} }
    \cup { StatusResponse("ok", pt, 0, FALSE) : pt \in {"absent", "null", "string", "nan"} }
    \cup { StatusResponse("ok", "bool", 0, f) : f \in BOOLEAN }
    \cup { StatusResponse("ok", "number", h, FALSE) : h \in {-2, -1, 0, 1, 2, 3, 4} }

\* Python's int() of the number halves/2: truncation toward zero
int_of_number(halves) ==
    IF halves >= 0 THEN halves \div 2 ELSE -((-halves) \div 2)

\* the exception classes the requests, the decoding and the processing
\* raise; each derives from Exception
ExceptionClasses ==
    {"TimeoutError", "ClientResponseError", "ContentTypeError", "AttributeError",
     "ValueError", "KeyError", "OSError"}

\* lines 50 and 236: "except Exception" catches e
except_client_errors_only(e) == e \in {"ClientResponseError", "ContentTypeError"}
except_Exception(e) == e \in ExceptionClasses

\* lines 38-49, the body of the try: the exception it raises ("" if none)
\* and the value it returns.  A timeout, an error status and an undecodable
\* body raise; so do data.get on a body that is no object and int() of a
\* NaN; a bool is an int in Python.
status_try(r) ==
    IF r.status = "timeout" THEN [exc |-> "TimeoutError", value |-> None]
    ELSE IF r.status = "http_error" THEN [exc |-> "ClientResponseError", value |-> None]
    ELSE IF r.status = "bad_json" THEN [exc |-> "ContentTypeError", value |-> None]
    ELSE IF r.status = "not_object" THEN [exc |-> "AttributeError", value |-> None]
    ELSE IF r.ptype = "nan" THEN [exc |-> "ValueError", value |-> None]
    ELSE IF r.ptype = "number" THEN [exc |-> "", value |-> Some(int_of_number(r.halves))]
    ELSE IF r.ptype = "bool" THEN [exc |-> "", value |-> Some(IF r.flag THEN 1 ELSE 0)]
    ELSE [exc |-> "", value |-> None]

\* lines 37-51: what check_esi_status returns; None for every exception the
\* except clause catches
check_esi_status(r) ==
    IF status_try(r).exc # "" THEN None ELSE status_try(r).value

\* the exception that leaves check_esi_status, "" if none does
check_esi_status_raises(r) ==
    IF status_try(r).exc # "" /\ ~except_Exception(status_try(r).exc)
        THEN status_try(r).exc
        ELSE ""

\* lines 238-243
classify(players) ==
    IF players # None /\ players[1] > 0 THEN EXIT_REAL_FAILURE ELSE EXIT_MAINTENANCE

\* ------------------------------------------------------- upstream pages
\* the response bodies a page request can decode to
BodyA == << Order(Some(TARGET_SYSTEM_ID), Some(1), Some(TRUE), Some(2)) >>
BodyB == << Order(Some(TARGET_SYSTEM_ID), Some(1), Some(FALSE), Some(3)),
            Order(Some(OTHER_SYSTEM_ID), Some(1), Some(TRUE), Some(9)) >>
BodyC == << Order(Some(TARGET_SYSTEM_ID), Some(2), Some(FALSE), None) >>
PageBodies == {BodyA, BodyB, BodyC}

\* the x-pages header of the page-1 response: absent, not a number, or a count
XPagesHeaders == {None, Some("abc")} \cup { Some(str(n)) : n \in 0..MaxPages }

\* the exceptions a request raises: timeout, raise_for_status, response.json()
RequestErrors == {"TimeoutError", "ClientResponseError"}
PageErrors == RequestErrors \cup {"ContentTypeError"}

Pages == 2..MaxPages

\* ------------------------------------------------------------------ state
VARIABLES
    pc,               \* where main is
    page1,            \* the page-1 response: its x-pages header and its body
    total_pages,      \* line 113
    first_page_data,  \* line 113
    all_data,         \* line 114
    task,             \* the fetch_page task of each page 2..N
    sem,              \* the semaphore's value: the permits that are free
    waiters,          \* the tasks blocked in the semaphore, first come first
    results,          \* what each finished fetch_page returned
    doneOrder,        \* the pages in the order their fetches finished
    failed,           \* the pages whose fetch raised inside fetch_page
    requests,         \* how many requests were issued for each page
    processed_data,   \* line 229
    file,             \* output/market_prices.json
    probes,           \* how many status requests were issued
    status_response,  \* what the status endpoint answered
    err,              \* the exception that left the pipeline, "" if none
    called,           \* which of process_orders and save_data were called
    exit_code,        \* what main returned
    file_before,      \* the file as it was when this run started
    saves             \* how many calls of save_data wrote the file in this run

vars == <<pc, page1, total_pages, first_page_data, all_data, task, sem, waiters, results,
          doneOrder, failed, requests, processed_data, file, probes,
          status_response, err, called, exit_code, file_before, saves>>

fetch_vars == <<page1, total_pages, first_page_data, all_data, task, sem, waiters, results,
                doneOrder, failed, requests>>
tail_vars == <<processed_data, file, probes, status_response, called, exit_code,
               file_before, saves>>

NoResponse == [received |-> FALSE, x_pages |-> None, body |-> None]
Response(h, body) == [received |-> TRUE, x_pages |-> h, body |-> body]

NoStatus == StatusResponse("none", "absent", 0, FALSE)
\* exit_code while main has not returned
NoExit == 0 - 1

Init ==
    /\ pc = "start"
    /\ page1 = NoResponse
    /\ total_pages = 0
    /\ first_page_data = << >>
    /\ all_data = << >>
    /\ task = [p \in Pages |-> "none"]
    /\ sem = 0
    /\ waiters = << >>
    /\ results = [p \in Pages |-> << >>]
    /\ doneOrder = << >>
    /\ failed = {}
    /\ requests = [p \in 1..MaxPages |-> 0]
    /\ processed_data = << >>
    /\ file \in {NoFile, OldFile}
    /\ probes = 0
    /\ status_response = NoStatus
    /\ err = ""
    /\ called = {}
    /\ exit_code = NoExit
    /\ file_before = file
    /\ saves = 0

\* --------------------------------------------------------------- raising
\* An exception leaves the try block of main (line 236): the pipeline stops
\* where it is and main is at its except clause, or, were the exception not
\* caught there, main is left by it ("crashed").
Raise(e) ==
    /\ err' = e
    /\ pc' = IF except_Exception(e) THEN "except" ELSE "crashed"

\* ------------------------------------------------------- get_total_pages
\* lines 222-225, 111-113, 88-89: main starts and the page-1 request is sent
main_start ==
    /\ pc = "start"
    /\ pc' = "page1"
    /\ requests' = [requests EXCEPT ![1] = @ + 1]
    /\ UNCHANGED <<page1, total_pages, first_page_data, all_data, task, sem, waiters,
                   results, doneOrder, failed, err>>
    /\ UNCHANGED tail_vars

\* lines 89-90: the request times out or raise_for_status raises
get_total_pages_raise ==
    /\ pc = "page1"
    /\ \E e \in RequestErrors : Raise(e)
    /\ UNCHANGED fetch_vars
    /\ UNCHANGED tail_vars

\* line 93: headers.get('x-pages', 1) and int() of it
x_pages_default_none(h) == IF h = None THEN None ELSE int(h[1])
x_pages(h) == IF h = None THEN Some(1) ELSE int(h[1])

\* line 122 and lines 125-128: the tasks gather is given
tasks_unbounded(n) == [p \in Pages |-> IF p <= n + 1 THEN "created" ELSE "none"]
tasks(n) == [p \in Pages |-> IF p <= n THEN "created" ELSE "none"]

\* lines 89-98 and 113-131: the page-1 response arrives with a 2xx status.
\* body = None is a body response.json() cannot decode.
get_total_pages_return ==
    /\ pc = "page1"
    /\ \E h \in XPagesHeaders, body \in {None} \cup {Some(b) : b \in PageBodies} :
        /\ page1' = Response(h, body)
        /\ IF x_pages(h) = None
               THEN /\ Raise("ValueError")
                    /\ UNCHANGED <<total_pages, first_page_data, all_data, task, sem>>
           ELSE IF body = None
               THEN /\ Raise("ContentTypeError")
                    /\ UNCHANGED <<total_pages, first_page_data, all_data, task, sem>>
           ELSE /\ total_pages' = x_pages(h)[1]
                /\ first_page_data' = body[1]
                /\ all_data' = body[1]
                /\ err' = err
                /\ IF total_pages' = 1
                       THEN /\ pc' = "process"
                            /\ UNCHANGED <<task, sem>>
                       ELSE /\ pc' = "gather"
                            /\ sem' = concurrent
                            /\ task' = tasks(total_pages')
    /\ UNCHANGED <<waiters, results, doneOrder, failed, requests>>
    /\ UNCHANGED tail_vars

\* ------------------------------------------------------------ fetch_page
\* asyncio.Semaphore.locked()
locked_never == FALSE
locked == sem = 0 \/ waiters # << >>

\* line 67 and line 69: a new task runs to its first suspension.  The tasks
\* start in the order gather was given them.  With a free permit the task
\* takes it and sends its request, otherwise it queues in the semaphore.
fetch_page_start ==
    /\ pc = "gather"
    /\ \E p \in Pages :
        /\ task[p] = "created"
        /\ \A q \in Pages : q < p => task[q] # "created"
        /\ IF locked
               THEN /\ task' = [task EXCEPT ![p] = "waiting"]
                    /\ waiters' = Append(waiters, p)
                    /\ UNCHANGED <<sem, requests>>
               ELSE /\ task' = [task EXCEPT ![p] = "inflight"]
                    /\ sem' = sem - 1
                    /\ requests' = [requests EXCEPT ![p] = @ + 1]
                    /\ UNCHANGED waiters
    /\ UNCHANGED <<pc, page1, total_pages, first_page_data, all_data, results, doneOrder,
                   failed, err>>
    /\ UNCHANGED tail_vars

\* line 67 and line 69: the first waiter is given a released permit and
\* sends its request
fetch_page_wake_lost ==
    /\ pc = "gather"
    /\ waiters # << >>
    /\ sem > 0
    /\ waiters' = Tail(waiters)
    /\ UNCHANGED <<pc, page1, total_pages, first_page_data, all_data, task, sem, requests,
                   results, doneOrder, failed, err>>
    /\ UNCHANGED tail_vars

fetch_page_wake ==
    /\ pc = "gather"
    /\ waiters # << >>
    /\ sem > 0
    /\ LET p == Head(waiters)
       IN  /\ task' = [task EXCEPT ![p] = "inflight"]
           /\ requests' = [requests EXCEPT ![p] = @ + 1]
    /\ waiters' = Tail(waiters)
    /\ sem' = sem - 1
    /\ UNCHANGED <<pc, page1, total_pages, first_page_data, all_data, results, doneOrder,
                   failed, err>>
    /\ UNCHANGED tail_vars

\* lines 69-72 and the exit of "async with semaphore": the page decodes
fetch_page_return ==
    /\ pc = "gather"
    /\ \E p \in Pages, body \in PageBodies :
        /\ task[p] = "inflight"
        /\ task' = [task EXCEPT ![p] = "done"]
        /\ results' = [results EXCEPT ![p] = body]
        /\ doneOrder' = Append(doneOrder, p)
    /\ sem' = sem + 1
    /\ UNCHANGED <<pc, page1, total_pages, first_page_data, all_data, waiters, failed,
                   requests, err>>
    /\ UNCHANGED tail_vars

\* lines 73-75 and the exit of "async with semaphore": the request or the
\* decoding raised; the page's result is the empty list
fetch_page_except_propagates ==
    /\ pc = "gather"
    /\ \E p \in Pages, e \in PageErrors :
        /\ task[p] = "inflight"
        /\ failed' = failed \cup {p}
        /\ Raise(e)
    /\ UNCHANGED <<page1, total_pages, first_page_data, all_data, task, sem, waiters,
                   results, doneOrder, requests>>
    /\ UNCHANGED tail_vars

fetch_page_except_no_release ==
    /\ pc = "gather"
    /\ \E p \in Pages, e \in PageErrors :
        /\ task[p] = "inflight"
        /\ task' = [task EXCEPT ![p] = "done"]
        /\ results' = [results EXCEPT ![p] = << >>]
        /\ doneOrder' = Append(doneOrder, p)
        /\ failed' = failed \cup {p}
    /\ UNCHANGED <<pc, page1, total_pages, first_page_data, all_data, sem, waiters, requests,
                   err>>
    /\ UNCHANGED tail_vars

fetch_page_except ==
    /\ pc = "gather"
    /\ \E p \in Pages, e \in PageErrors :
        /\ task[p] = "inflight"
        /\ task' = [task EXCEPT ![p] = "done"]
        /\ results' = [results EXCEPT ![p] = << >>]
        /\ doneOrder' = Append(doneOrder, p)
        /\ failed' = failed \cup {p}
    /\ sem' = sem + 1
    /\ UNCHANGED <<pc, page1, total_pages, first_page_data, all_data, waiters, requests, err>>
    /\ UNCHANGED tail_vars

\* ------------------------------------------------------- fetch_all_pages
\* line 131: gather's result list, one (page, data) pair per task, in the
\* order of the tasks
RECURSIVE gather_results(_, _)
gather_results(p, n) ==
    IF p > n THEN << >>
    ELSE <<[page |-> p, data |-> results[p]]>> \o gather_results(p + 1, n)

\* line 135: sorted(results_dict.keys())
RECURSIVE sorted(_)
sorted(S) ==
    IF S = {} THEN << >>
    ELSE LET m == CHOOSE x \in S : \A y \in S : x <= y
         IN  <<m>> \o sorted(S \ {m})

\* lines 134-138 with the pages taken in a given order
RECURSIVE extend_all(_, _, _)
extend_all(acc, order, results_dict) ==
    IF order = << >> THEN acc
    ELSE extend_all(acc \o results_dict[Head(order)], Tail(order), results_dict)

\* lines 134-137: results_dict, and all_data extended page by page
merge_in_done_order(first, res) == extend_all(first, doneOrder, results)
merge(first, res) ==
    LET ks == { res[i].page : i \in 1..Len(res) }
        results_dict == [k \in ks |-> res[CHOOSE i \in 1..Len(res) : res[i].page = k].data]
    IN  extend_all(first, sorted(ks), results_dict)

\* line 131: await asyncio.gather(*tasks) returns once every task is done
gather_done_first_completed ==
    \/ \A p \in Pages : task[p] = "none"
    \/ \E p \in Pages : task[p] = "done"
gather_done == \A p \in Pages : task[p] \in {"none", "done"}

\* lines 131-140: every task is done, gather returns, the pages are merged
\* and fetch_all_pages returns to main
fetch_all_pages_merge ==
    /\ pc = "gather"
    /\ gather_done
    /\ \E res \in {gather_results(2, total_pages)} :
           all_data' = merge(first_page_data, res)
    /\ pc' = "process"
    /\ UNCHANGED <<page1, total_pages, first_page_data, task, sem, waiters, results, doneOrder,
                   failed, requests, err>>
    /\ UNCHANGED tail_vars

\* ------------------------------------------------------------------ main
\* line 229
main_process_orders_after_open ==
    /\ pc = "process"
    /\ called' = called \cup {"process_orders"}
    /\ \E r \in {process_orders(all_data)} :
           IF r.raised
               THEN /\ Raise("KeyError")
                    /\ file' = TruncatedFile
                    /\ UNCHANGED processed_data
               ELSE /\ processed_data' = r.value
                    /\ pc' = "save"
                    /\ err' = err
                    /\ file' = file
    /\ UNCHANGED fetch_vars
    /\ UNCHANGED <<probes, status_response, exit_code, file_before, saves>>

main_process_orders ==
    /\ pc = "process"
    /\ called' = called \cup {"process_orders"}
    /\ \E r \in {process_orders(all_data)} :
           IF r.raised
               THEN /\ Raise("KeyError")
                    /\ UNCHANGED processed_data
               ELSE /\ processed_data' = r.value
                    /\ pc' = "save"
                    /\ err' = err
    /\ UNCHANGED fetch_vars
    /\ UNCHANGED <<file, probes, status_response, exit_code, file_before, saves>>

\* lines 208-210: open(output_file, 'w') empties the file f and json.dump
\* writes data; what f held plays no part
save_data_update(f, data) ==
    DumpedFile(SelectSeq(f.text, LAMBDA e : ~(\E i \in 1..Len(data) : data[i].key = e.key))
               \o data)
save_data_append(f, data) == DumpedFile(f.text \o data)
save_data(f, data) == DumpedFile(data)

\* lines 232-235 and 205-210: the file is written and main returns 0
main_save_data ==
    /\ pc = "save"
    /\ called' = called \cup {"save_data"}
    /\ file' = save_data(file, processed_data)
    /\ saves' = saves + 1
    /\ pc' = "done"
    /\ exit_code' = EXIT_SUCCESS
    /\ UNCHANGED fetch_vars
    /\ UNCHANGED <<processed_data, probes, status_response, err, file_before>>

\* lines 205-210: makedirs or open raises and the file is as it was, or the
\* write raises after open truncated the file
save_data_raise_ignored ==
    /\ pc = "save"
    /\ called' = called \cup {"save_data"}
    /\ file' \in {file, TruncatedFile}
    /\ err' = "OSError"
    /\ pc' = "done"
    /\ exit_code' = EXIT_SUCCESS
    /\ UNCHANGED fetch_vars
    /\ UNCHANGED <<processed_data, probes, status_response, file_before, saves>>

save_data_raise ==
    /\ pc = "save"
    /\ called' = called \cup {"save_data"}
    /\ file' \in {file, TruncatedFile}
    /\ Raise("OSError")
    /\ UNCHANGED fetch_vars
    /\ UNCHANGED <<processed_data, probes, status_response, exit_code, file_before, saves>>

\* lines 236-238 and 38-43: the except clause sends the status request
main_except ==
    /\ pc = "except"
    /\ pc' = "probe"
    /\ probes' = probes + 1
    /\ UNCHANGED fetch_vars
    /\ UNCHANGED <<processed_data, file, status_response, err, called, exit_code,
                   file_before, saves>>

\* lines 43-51 and 239-243: the status request ends and main returns 1 or 2
check_esi_status_return ==
    /\ pc = "probe"
    /\ \E r \in StatusResponses :
        /\ status_response' = r
        /\ IF check_esi_status_raises(r) # ""
               THEN /\ pc' = "crashed"
                    /\ UNCHANGED exit_code
               ELSE /\ pc' = "done"
                    /\ exit_code' = classify(check_esi_status(r))
    /\ UNCHANGED fetch_vars
    /\ UNCHANGED <<processed_data, file, probes, err, called, file_before, saves>>

\* lines 246-248: the process has exited and the script is run again; only
\* the output file outlives a run
main_again ==
    /\ pc \in {"done", "crashed"}
    /\ pc' = "start"
    /\ page1' = NoResponse
    /\ total_pages' = 0
    /\ first_page_data' = << >>
    /\ all_data' = << >>
    /\ task' = [p \in Pages |-> "none"]
    /\ sem' = 0
    /\ waiters' = << >>
    /\ results' = [p \in Pages |-> << >>]
    /\ doneOrder' = << >>
    /\ failed' = {}
    /\ requests' = [p \in 1..MaxPages |-> 0]
    /\ processed_data' = << >>
    /\ probes' = 0
    /\ status_response' = NoStatus
    /\ err' = ""
    /\ called' = {}
    /\ exit_code' = NoExit
    /\ file_before' = file
    /\ saves' = 0
    /\ UNCHANGED file

Next ==
    \/ main_start
    \/ get_total_pages_raise
    \/ get_total_pages_return
    \/ fetch_page_start
    \/ fetch_page_wake
    \/ fetch_page_return
    \/ fetch_page_except
    \/ fetch_all_pages_merge
    \/ main_process_orders
    \/ main_save_data
    \/ save_data_raise
    \/ main_except
    \/ check_esi_status_return

\* one run of main
Spec == Init /\ [][Next]_vars

\* runs that follow one another over the same output file
NextRuns ==
    \/ Next
    \/ main_again

SpecRuns == Init /\ [][NextRuns]_vars

\* one run of main, the first (there is no output file yet; no step of a run
\* reads the file), in which every request that was sent ends (the status
\* request by its timeout of 10 s, line 41; the page requests by
\* timeout=TIMEOUT, lines 69 and 88) and the event loop runs every task that
\* is ready: a step that stays possible is taken.
InitFresh == Init /\ file = NoFile

FairSpec == InitFresh /\ [][Next]_vars /\ WF_vars(Next)

\* process_orders on its own: main is about to call it on any record list
InitOrders ==
    /\ pc = "process"
    /\ total_pages = 1
    /\ all_data \in BoundedSeq(OrderRecords, MaxOrders)
    /\ page1 = Response(None, Some(all_data))
    /\ first_page_data = all_data
    /\ task = [p \in Pages |-> "none"]
    /\ sem = 0
    /\ waiters = << >>
    /\ results = [p \in Pages |-> << >>]
    /\ doneOrder = << >>
    /\ failed = {}
    /\ requests = [p \in 1..MaxPages |-> IF p = 1 THEN 1 ELSE 0]
    /\ processed_data = << >>
    /\ file = NoFile
    /\ probes = 0
    /\ status_response = NoStatus
    /\ err = ""
    /\ called = {}
    /\ exit_code = NoExit
    /\ file_before = file
    /\ saves = 0

NextOrders ==
    \/ main_process_orders
    \/ main_save_data

SpecOrders == InitOrders /\ [][NextOrders]_vars

\* lines 196-213: save_data is called once more with the same data
save_data_again ==
    /\ pc = "done"
    /\ exit_code = EXIT_SUCCESS
    /\ saves < MaxSaves
    /\ file' = save_data(file, processed_data)
    /\ saves' = saves + 1
    /\ UNCHANGED fetch_vars
    /\ UNCHANGED <<pc, processed_data, probes, status_response, err, called, exit_code,
                   file_before>>

\* save_data on its own: main is about to call it with the aggregate of any
\* record list, over any file
InitSave ==
    /\ pc = "save"
    /\ total_pages = 1
    /\ all_data \in { o \in BoundedSeq(OrderRecords, MaxOrders - 1) : ~process_orders(o).raised }
    /\ page1 = Response(None, Some(all_data))
    /\ first_page_data = all_data
    /\ task = [p \in Pages |-> "none"]
    /\ sem = 0
    /\ waiters = << >>
    /\ results = [p \in Pages |-> << >>]
    /\ doneOrder = << >>
    /\ failed = {}
    /\ requests = [p \in 1..MaxPages |-> IF p = 1 THEN 1 ELSE 0]
    /\ processed_data = process_orders(all_data).value
    /\ file \in {NoFile, OldFile, TruncatedFile,
                 DumpedFile(<<[key |-> "1", item |-> item(2, 3)]>>)}
    /\ probes = 0
    /\ status_response = NoStatus
    /\ err = ""
    /\ called = {"process_orders"}
    /\ exit_code = NoExit
    /\ file_before = file
    /\ saves = 0

NextSave ==
    \/ main_save_data
    \/ save_data_again

SpecSave == InitSave /\ [][NextSave]_vars

\* ================================================================ claims
InFlight == { p \in Pages : task[p] = "inflight" }

\* fetch_all_pages has returned its list to main
FetchReturned == pc \in {"process", "save"} \/ called # {}

\* the pipeline raised: main is in, or went through, its except clause
PipelineRaised == err # ""

\* the probe answered a number (a bool is an int in Python) greater than 0
ReportedPlayersPositive(r) ==
    /\ r.status = "ok"
    /\ \/ r.ptype = "number" /\ r.halves > 0
       \/ r.ptype = "bool" /\ r.flag

\* C1 (as stated): when the pipeline raised, main returns 1 if and only if
\* the status probe succeeded and reported a numeric players value > 0, and
\* returns 2 in every other case.
C1_ExitOneIffPlayersPositive ==
    (pc = "done" /\ PipelineRaised) =>
        /\ exit_code = EXIT_REAL_FAILURE <=> ReportedPlayersPositive(status_response)
        /\ exit_code = EXIT_MAINTENANCE <=> ~ReportedPlayersPositive(status_response)

\* C2: the number of fetch_page requests of pages 2..N that are in flight
\* never exceeds the size of the semaphore.
C2_InFlightBounded == Cardinality(InFlight) <= concurrent

\* C2 witness: the semaphore is exhausted while a further page waits for it
C2_Witness ==
    /\ Cardinality(InFlight) = concurrent
    /\ waiters # << >>

\* the records of page p as fetch_all_pages received them
PageRecords(p) == IF p = 1 THEN first_page_data ELSE results[p]

RECURSIVE AscendingFrom(_, _)
AscendingFrom(p, n) ==
    IF p > n THEN << >> ELSE PageRecords(p) \o AscendingFrom(p + 1, n)

\* C3: the list fetch_all_pages returns is page 1's records followed by the
\* records of pages 2..N in ascending page number, whatever the order in
\* which the fetches finished.
C3_MergeAscending ==
    FetchReturned => all_data = first_page_data \o AscendingFrom(2, total_pages)

\* C3 witness: three pages with different records, the later page finishing
\* first
C3_Witness ==
    /\ FetchReturned
    /\ total_pages = 3
    /\ doneOrder = <<3, 2>>
    /\ results[2] = BodyA
    /\ results[3] = BodyB

\* C4: a failing fetch of a page k >= 2 raises nothing in main, which keeps
\* waiting for the other fetches; the page counts as zero records, the other
\* pages are merged in ascending order, and the run goes on to aggregation.
C4_PageFailureSwallowed ==
    /\ [](\A p \in failed : results[p] = << >> /\ task[p] = "done")
    /\ [](FetchReturned =>
             all_data = first_page_data \o AscendingFrom(2, total_pages))
    /\ []((failed # {} /\ pc \in {"save", "except", "probe", "done"}) =>
             "process_orders" \in called)
    /\ [][failed' \ failed # {} => (pc' = "gather" /\ err' = "")]_vars

\* C4 witness: every page after the first failed and main returned 0
C4_Witness ==
    /\ pc = "done"
    /\ exit_code = EXIT_SUCCESS
    /\ total_pages = 3
    /\ failed = {2, 3}
    /\ file = DumpedFile(process_orders(first_page_data).value)

\* the page-1 request itself failed: a timeout or an error status
Page1RequestFailed == err \in RequestErrors

\* C5 (as stated): when the page-1 request fails no later page is requested,
\* process_orders and save_data are never called, the status probe is sent,
\* and main returns 1 when the probe reports players > 0 and 2 when the
\* probe times out.
C5_Page1FailureClassified ==
    Page1RequestFailed =>
        /\ \A p \in Pages : requests[p] = 0
        /\ called = {}
        /\ pc \in {"except", "probe", "done"}
        /\ pc = "done" =>
              /\ probes = 1
              /\ (status_response.status = "ok" /\ status_response.ptype = "number"
                    /\ status_response.halves > 0) => exit_code = EXIT_REAL_FAILURE
              /\ status_response.status = "timeout" => exit_code = EXIT_MAINTENANCE

\* C6: main returns 0 exactly when the page-1 fetch, the fan-out, the
\* aggregation and the writing all completed without raising; then no
\* status probe was sent, and when the pipeline raised exactly one probe is
\* sent, after the error.
C6_ExitZeroIffNoError ==
    /\ probes <= 1
    /\ probes = 1 => PipelineRaised
    /\ PipelineRaised => pc \in {"except", "probe", "done"}
    /\ (PipelineRaised /\ pc \in {"probe", "done"}) => probes = 1
    /\ pc = "done" =>
          (exit_code = EXIT_SUCCESS <=>
              /\ ~PipelineRaised
              /\ called = {"process_orders", "save_data"}
              /\ file = DumpedFile(processed_data))
    /\ (pc = "done" /\ PipelineRaised) => exit_code \in {EXIT_REAL_FAILURE, EXIT_MAINTENANCE}

\* C6 witness: a run over several pages that returned 0
C6_Witness ==
    /\ pc = "done"
    /\ exit_code = EXIT_SUCCESS
    /\ total_pages > 1
    /\ probes = 0

\* C6 witness of the other side: a run whose writer raised and that probed
C6_WitnessRaised ==
    /\ pc = "done"
    /\ err = "OSError"
    /\ probes = 1

HeaderAbsent == page1.received /\ page1.x_pages = None
HeaderUnparsable ==
    /\ page1.received
    /\ page1.x_pages # None
    /\ \A n \in 0..9 : page1.x_pages[1] # str(n)

\* C10 (as stated): a successful page-1 response whose x-pages header is
\* absent or unparsable gives a total page count of 1 and page 1's records,
\* and raises no error.
C10_HeaderDefaultsToOne ==
    (page1.body # None /\ (HeaderAbsent \/ HeaderUnparsable)) =>
        /\ total_pages = 1
        /\ err # "ValueError"
        /\ FetchReturned
        /\ all_data = page1.body[1]

\* C10 (amended): with the header absent the total page count is 1, no
\* other page is requested and fetch_all_pages returns page 1's records;
\* with a header int() cannot parse, ValueError leaves fetch_all_pages, no
\* other page is requested and nothing is aggregated or written.
C10_HeaderAbsentOrRaises ==
    /\ (HeaderAbsent /\ page1.body # None) =>
          /\ total_pages = 1
          /\ FetchReturned
          /\ all_data = page1.body[1]
          /\ err \in {"", "KeyError", "OSError"}
          /\ \A p \in Pages : requests[p] = 0
    /\ HeaderUnparsable =>
          /\ err = "ValueError"
          /\ called = {}
          /\ \A p \in Pages : requests[p] = 0
          /\ pc \in {"except", "probe", "done"}

\* C10 witness: both cases, each after main has returned
C10_Witness ==
    /\ pc = "done"
    /\ \/ HeaderAbsent /\ exit_code = EXIT_SUCCESS /\ all_data = BodyB
       \/ HeaderUnparsable /\ page1.body # None /\ exit_code = EXIT_MAINTENANCE

C10_WitnessUnparsable ==
    /\ pc = "done"
    /\ HeaderUnparsable
    /\ page1.body # None

\* ------------------------------------------------- claims on process_orders
\* the item identifiers of the records, 0 (falsy, never grouped) aside
ItemIds == { t \in 1..9 : \E i \in 1..Len(all_data) : all_data[i].type_id = Some(t) }

\* the positions of item t's buy-side (side = TRUE) or sell-side records in
\* the target system
TargetSide(t, side) ==
    { i \in 1..Len(all_data) :
        /\ all_data[i].system_id = Some(TARGET_SYSTEM_ID)
        /\ all_data[i].type_id = Some(t)
        /\ all_data[i].is_buy_order = Some(side) }

SidePrices(t, side) == { all_data[i].price[1] : i \in TargetSide(t, side) }

SetMax(S) == CHOOSE x \in S : \A y \in S : y <= x
SetMin(S) == CHOOSE x \in S : \A y \in S : x <= y

ItemOfKey(k) == CHOOSE t \in 0..9 : str(t) = k

\* process_orders returned to main: processed_data is its result
Aggregated == pc = "save"

\* every reordering of the records gives the same dict, or raises as well
OrderIndependent ==
    \A f \in Permutations(1..Len(all_data)) :
        LET r == process_orders([i \in 1..Len(all_data) |-> all_data[f[i]]])
        IN  /\ Aggregated => (~r.raised /\ SameDict(r.value, processed_data))
            /\ pc = "except" => r.raised

\* C7 (as stated): in every entry b is the maximum price of the item's
\* buy-side records in the target system and s the minimum price of its
\* sell-side records, and the output is the same for every ordering.
C7_BestBidAsk ==
    /\ OrderIndependent
    /\ Aggregated =>
          \A k \in Keys(processed_data) :
              LET t == ItemOfKey(k)
                  e == Lookup(processed_data, k)
              IN  /\ TargetSide(t, TRUE) # {} => e.b = Some(SetMax(SidePrices(t, TRUE)))
                  /\ TargetSide(t, FALSE) # {} => e.s = Some(SetMin(SidePrices(t, FALSE)))

\* C7 (amended): in every entry b is the maximum price of the item's
\* buy-side records in the target system when there are such records and
\* that maximum is > 0, and is absent otherwise; s is the minimum price of
\* its sell-side records when there are such records and that minimum is
\* > 0, and is absent otherwise; the output is the same for every ordering.
C7_BestBidAskWhenPositive ==
    /\ OrderIndependent
    /\ Aggregated =>
          \A k \in Keys(processed_data) :
              LET t == ItemOfKey(k)
                  e == Lookup(processed_data, k)
                  hasB == TargetSide(t, TRUE) # {} /\ SetMax(SidePrices(t, TRUE)) > 0
                  hasS == TargetSide(t, FALSE) # {} /\ SetMin(SidePrices(t, FALSE)) > 0
              IN  /\ e.b = IF hasB THEN Some(SetMax(SidePrices(t, TRUE))) ELSE None
                  /\ e.s = IF hasS THEN Some(SetMin(SidePrices(t, FALSE))) ELSE None

\* C7 witness: two buys of one item, the cheaper first, and a sell
C7_Witness ==
    /\ Aggregated
    /\ Len(all_data) = 3
    /\ all_data[1].price = Some(1) /\ all_data[1].is_buy_order = Some(TRUE)
    /\ SidePrices(1, TRUE) = {1, 2}
    /\ processed_data = <<[key |-> "1", item |-> [b |-> Some(2), s |-> Some(1)]]>>

\* C8 (as stated): an item with buy orders only has an entry with b and
\* without s, an item with sell orders only an entry with s and without b,
\* and an item with no orders on either side after filtering has no entry.
C8_SidesPresent ==
    Aggregated =>
        \A t \in ItemIds :
            LET B == TargetSide(t, TRUE)
                S == TargetSide(t, FALSE)
                k == str(t)
            IN  /\ (B # {} /\ S = {}) =>
                      /\ k \in Keys(processed_data)
                      /\ Lookup(processed_data, k).b # None
                      /\ Lookup(processed_data, k).s = None
                /\ (S # {} /\ B = {}) =>
                      /\ k \in Keys(processed_data)
                      /\ Lookup(processed_data, k).s # None
                      /\ Lookup(processed_data, k).b = None
                /\ (B = {} /\ S = {}) => k \notin Keys(processed_data)

\* C8 (amended): an item with buy orders only whose highest price is > 0
\* has an entry with b and without s, an item with sell orders only whose
\* lowest price is > 0 an entry with s and without b, and an item with no
\* orders on either side after filtering has no entry.
C8_SidesPresentWhenPositive ==
    Aggregated =>
        \A t \in ItemIds :
            LET B == TargetSide(t, TRUE)
                S == TargetSide(t, FALSE)
                k == str(t)
            IN  /\ (B # {} /\ S = {} /\ SetMax(SidePrices(t, TRUE)) > 0) =>
                      /\ k \in Keys(processed_data)
                      /\ Lookup(processed_data, k).b # None
                      /\ Lookup(processed_data, k).s = None
                /\ (S # {} /\ B = {} /\ SetMin(SidePrices(t, FALSE)) > 0) =>
                      /\ k \in Keys(processed_data)
                      /\ Lookup(processed_data, k).s # None
                      /\ Lookup(processed_data, k).b = None
                /\ (B = {} /\ S = {}) => k \notin Keys(processed_data)

\* C8 witness: item 1 has buys only, item 2 sells only, and a third record
\* is of another system
C8_Witness ==
    /\ Aggregated
    /\ TargetSide(1, TRUE) # {} /\ TargetSide(1, FALSE) = {}
    /\ TargetSide(2, FALSE) # {} /\ TargetSide(2, TRUE) = {}
    /\ processed_data = <<[key |-> "1", item |-> [b |-> Some(2), s |-> None]],
                          [key |-> "2", item |-> [b |-> None, s |-> Some(3)]]>>

\* the records that carry the target identifier, in their order
RECURSIVE TargetOnly(_)
TargetOnly(orders) ==
    IF orders = << >> THEN << >>
    ELSE IF Head(orders).system_id = Some(TARGET_SYSTEM_ID)
        THEN <<Head(orders)>> \o TargetOnly(Tail(orders))
        ELSE TargetOnly(Tail(orders))

\* C9: the records of another system never influence the output: what
\* process_orders gave is what it gives on the target-system records alone,
\* so two lists that agree on those records have equal aggregates.
C9_OtherSystemsIgnored ==
    LET alone == process_orders(TargetOnly(all_data))
    IN  /\ Aggregated => (~alone.raised /\ processed_data = alone.value)
        /\ pc = "except" => alone.raised

\* C9 witness: a record of another system outbids the target-system buy of
\* the same item and is not in the output
C9_Witness ==
    /\ Aggregated
    /\ \E i \in 1..Len(all_data) :
          all_data[i] = Order(Some(OTHER_SYSTEM_ID), Some(1), Some(TRUE), Some(3))
    /\ \E i \in 1..Len(all_data) :
          all_data[i] = Order(None, Some(1), Some(FALSE), Some(-1))
    /\ processed_data = <<[key |-> "1", item |-> [b |-> Some(2), s |-> None]]>>

\* ------------------------------------------------------------ later claims
\* C11: the failure classifier never throws: whatever the pipeline raised
\* and whatever the status probe answers, no exception leaves main, and
\* main returns 0, 1 or 2.
C11_ClassifierNeverThrows ==
    /\ pc # "crashed"
    /\ pc = "done" => exit_code \in {EXIT_SUCCESS, EXIT_REAL_FAILURE, EXIT_MAINTENANCE}
    /\ (pc = "done" /\ PipelineRaised) =>
          /\ check_esi_status_raises(status_response) = ""
          /\ exit_code \in {EXIT_REAL_FAILURE, EXIT_MAINTENANCE}

\* C11 witness: the pipeline raised and the probe itself raised inside
\* check_esi_status (int() of a NaN), and main returned 2
C11_Witness ==
    /\ pc = "done"
    /\ err = "KeyError"
    /\ status_try(status_response).exc = "ValueError"
    /\ exit_code = EXIT_MAINTENANCE

\* C12: after any sequence of runs, when a run ends with exit code 0 the
\* output file holds exactly the aggregate of the records that run merged,
\* and no entry of what an earlier run wrote.
C12_OutputIsThisRunsAggregate ==
    (pc = "done" /\ exit_code = EXIT_SUCCESS) =>
        /\ ~process_orders(all_data).raised
        /\ file = DumpedFile(process_orders(all_data).value)
        /\ \A i \in 1..Len(file.text) :
              \E j \in 1..Len(processed_data) : processed_data[j] = file.text[i]

\* C12 witness: a run ends with exit code 0 over a file an earlier run wrote
\* with an entry this run's aggregate has not
C12_Witness ==
    /\ pc = "done"
    /\ exit_code = EXIT_SUCCESS
    /\ file_before = DumpedFile(<<[key |-> "1", item |-> item(2, 3)]>>)
    /\ file = DumpedFile(<<[key |-> "1", item |-> item(0, 3)]>>)

\* C13: persistence is idempotent: after two or more calls of save_data with
\* the same aggregate the file holds what it held after the first call,
\* whatever it held before.
C13_SaveIdempotent ==
    saves >= 1 =>
        /\ file = save_data(file_before, processed_data)
        /\ file = save_data(save_data(file_before, processed_data), processed_data)

\* C13 witness: save_data was called three times with a non-empty aggregate
\* over a file that held another dump
C13_Witness ==
    /\ saves = 3
    /\ file_before = OldFile
    /\ processed_data # << >>
    /\ file = DumpedFile(processed_data)

\* the page-1 response gave a page count: get_total_pages returned
PageCountKnown ==
    /\ page1.received
    /\ page1.body # None
    /\ x_pages(page1.x_pages) # None

\* C14: in a run with page count N, page 1 is requested exactly once and each
\* page 2..N exactly once, whether its request succeeds or fails; no other
\* page is requested, and with N = 1 page 1 is the only request.
C14_EachPageRequestedOnce ==
    /\ requests[1] = (IF pc = "start" THEN 0 ELSE 1)
    /\ \A p \in Pages :
          /\ requests[p] <= 1
          /\ requests[p] = 1 => PageCountKnown /\ p <= total_pages
          /\ p \in failed => requests[p] = 1
    /\ (PageCountKnown /\ total_pages = 1) => \A p \in Pages : requests[p] = 0
    /\ FetchReturned => \A p \in Pages : requests[p] = (IF p <= total_pages THEN 1 ELSE 0)

\* C14 witness: fetch_all_pages returned for N = 3 with page 2 failed: pages
\* 1, 2 and 3 were requested once each and page 4 never
C14_Witness ==
    /\ pc = "process"
    /\ total_pages = 3
    /\ failed = {2}
    /\ requests[1] = 1 /\ requests[2] = 1 /\ requests[3] = 1 /\ requests[4] = 0

\* a fetch of a page 2..N is dispatched and has not completed
Pending == { p \in Pages : task[p] \in {"created", "waiting", "inflight"} }

\* C15: the merge, and so aggregation and persistence, start only after every
\* dispatched fetch of pages 2..N has completed: while a fetch is pending or
\* in flight no merged list is built, nothing is aggregated and nothing is
\* written.
C15_MergeAfterAllFetches ==
    /\ Pending # {} =>
          /\ pc = "gather"
          /\ all_data = first_page_data
          /\ called = {}
          /\ processed_data = << >>
          /\ file = file_before
    /\ FetchReturned =>
          /\ Pending = {}
          /\ waiters = << >>
          /\ \A p \in Pages : p <= total_pages => task[p] = "done"

\* C15 witness: three fetches over two permits completed in the order 3, 4,
\* 2, one of them with a swallowed failure, and the aggregate was computed
C15_Witness ==
    /\ pc = "save"
    /\ total_pages = 4
    /\ doneOrder = <<3, 4, 2>>
    /\ failed = {4}
    /\ Pending = {}

\* C16 (as stated): for every record list, prices of zero and below zero
\* included, every entry process_orders emits has at least one of b and s,
\* and every b or s present is greater than 0.
C16_EntriesHaveAPositiveSide ==
    Aggregated =>
        \A i \in 1..Len(processed_data) :
            LET it == processed_data[i].item
            IN  /\ it.b # None \/ it.s # None
                /\ it.b # None => it.b[1] > 0
                /\ it.s # None => it.s[1] > 0

\* the errors raised before save_data is called: the page-1 request fails,
\* the page-count header or the page-1 body cannot be parsed, a
\* target-system record lacks its price
EarlyErrors == RequestErrors \cup {"ValueError", "ContentTypeError", "KeyError"}

\* C17: in a run where an error is raised before persistence starts, the
\* error reaches main's except clause (and the probe follows), save_data is
\* never called and the output file keeps the content it had before the run.
C17_EarlyErrorLeavesFile ==
    err \in EarlyErrors =>
        /\ pc \in {"except", "probe", "done"}
        /\ "save_data" \notin called
        /\ saves = 0
        /\ file = file_before
        /\ pc = "done" => probes = 1 /\ exit_code \in {EXIT_REAL_FAILURE, EXIT_MAINTENANCE}

\* C17 witness: every page was fetched, aggregation raised on a record
\* without price, main returned 1 and the older dump is still in the file
C17_Witness ==
    /\ pc = "done"
    /\ err = "KeyError"
    /\ total_pages = 3
    /\ "save_data" \notin called
    /\ file_before = OldFile
    /\ file = OldFile
    /\ exit_code = EXIT_REAL_FAILURE

\* fetch_all_pages created the semaphore (line 122)
SemaphoreCreated == PageCountKnown /\ total_pages # 1

\* the permits of the semaphore that are taken
PermitsTaken == IF SemaphoreCreated THEN concurrent - sem ELSE 0

\* C18: limiter accounting: the permits taken are as many as the page fetches
\* between acquire and release and never more than the limiter size; a
\* fetch releases its permit when it returns and when its error is
\* swallowed, so all permits are free when the fan-out is complete; the
\* page-1 fetch and the status probe hold no permit.
C18_LimiterAccounting ==
    /\ sem \in 0..concurrent
    /\ PermitsTaken = Cardinality(InFlight)
    /\ PermitsTaken <= concurrent
    /\ \A p \in failed : task[p] = "done"
    /\ (SemaphoreCreated /\ gather_done) => sem = concurrent
    /\ (FetchReturned /\ SemaphoreCreated) => sem = concurrent
    /\ pc \in {"start", "page1", "except", "probe"} => PermitsTaken = 0 /\ InFlight = {}
    /\ ~SemaphoreCreated => sem = 0

\* C18 witness: the fan-out of three fetches over two permits is complete,
\* two of the fetches failed, and both permits are free
C18_Witness ==
    /\ pc = "process"
    /\ total_pages = 4
    /\ failed = {2, 4}
    /\ doneOrder = <<2, 3, 4>>
    /\ sem = 2
    /\ PermitsTaken = 0

\* C19: when every request that was sent ends and waiting fetches are
\* scheduled fairly, the run ends with an exit code, for every page count,
\* also one above the limiter size: no fetch waits for a permit for ever
\* (main has returned, which ends the run, and no fetch is waiting or pending).
C19_RunTerminates ==
    <>(/\ pc = "done"
       /\ exit_code \in {EXIT_SUCCESS, EXIT_REAL_FAILURE, EXIT_MAINTENANCE}
       /\ waiters = << >>
       /\ Pending = {})

\* C19 witness: a run with three fetches over two permits, two of them
\* failed, ended with 0
C19_Witness ==
    /\ pc = "done"
    /\ exit_code = EXIT_SUCCESS
    /\ total_pages = 4
    /\ concurrent < total_pages - 1
    /\ doneOrder = <<2, 3, 4>>
    /\ failed = {2, 3}

====
